---- MODULE Spec2Model ----
(***************************************************************************)
(* license-cli: src/src/main.rs.  One run of the program: registry GET,    *)
(* selection (exact identifier or interactive picker fed by a producer     *)
(* thread), detail GET, preview on stdout, optional write of licenseText.  *)
(***************************************************************************)
EXTENDS Integers, Sequences, FiniteSets, TLC

\* ---------------------------------------------------------------- bounds
MaxLicenses == 2      \* longest registry list the model enumerates
Slack == 1            \* text lengths 0 and PreviewChars-Slack..PreviewChars+Slack

\* ------------------------------------------------------ program constants
PreviewChars == 200   \* text.chars().take(200)
RegistryUrl == "https://spdx.org/licenses/licenses.json"
PickerErrMsg == "No License selected."
ExpectMsg == "No license selected"

\* ------------------------------------------------------------ Option<T>
None == <<>>
Some(x) == <<x>>
Unwrap(o) == o[1]

\* ------------------------------------------------------ serde_json::Value
JNull == [t |-> "null"]
JStr(s) == [t |-> "str", v |-> s]
JArr(a) == [t |-> "arr", v |-> a]

as_str(j) == IF j.t = "str" THEN Some(j.v) ELSE None
as_array_or_default(j) == IF j.t = "arr" THEN Some(j.v) ELSE Some(<<>>)
as_array(j) == IF j.t = "arr" THEN Some(j.v) ELSE None

\* ----------------------------------------------------------- input sets
Ids == {"MIT", "mit"}
Urls == {"u1", "u2"}
OutPath == "LICENSE.out"

\* summaries with or without a string licenseId and a string detailsUrl; the
\* ones enumerated differ from a well-formed "MIT" summary in one field at most
Summaries == {s \in [licenseId : {JStr(i) : i \in Ids} \cup {JNull},
                     detailsUrl : {JStr(u) : u \in Urls} \cup {JNull}] :
                 s.licenseId = JStr("MIT") \/ s.detailsUrl = JStr("u1")}

RECURSIVE SeqsUpTo(_, _)
SeqsUpTo(S, n) ==
    IF n = 0 THEN {<<>>}
    ELSE LET shorter == SeqsUpTo(S, n - 1)
         IN  shorter \cup {Append(s, x) : s \in {q \in shorter : Len(q) = n - 1}, x \in S}

\* values the top-level "licenses" field can take: absent, not an array, an array
LicensesFields == {JNull, JStr("oops")} \cup {JArr(l) : l \in SeqsUpTo(Summaries, MaxLicenses)}

\* a license text is a sequence of characters; every third one is two bytes wide
MkText(n) == [i \in 1..n |-> IF i % 3 = 0 THEN "e'" ELSE "a"]
TextLens == {0} \cup ((PreviewChars - Slack)..(PreviewChars + Slack))
Texts == {MkText(n) : n \in TextLens}
DetailBodies == [licenseText : {JStr(t) : t \in Texts} \cup {JNull}]

\* outcome of one GET: transport error, body that is not JSON, a JSON body
RegistryResponses == {[kind |-> "send_err"], [kind |-> "json_err"]}
                        \cup {[kind |-> "json", body |-> [licenses |-> f]] : f \in LicensesFields}
DetailResponses == {[kind |-> "send_err"], [kind |-> "json_err"]}
                        \cup {[kind |-> "json", body |-> b] : b \in DetailBodies}

Cli == [spdx_identifier : {None} \cup {Some(i) : i \in Ids},
        output : {None, Some(OutPath)},
        full_text : BOOLEAN]

\* ------------------------------------------------------------ UTF-8 text
Utf8(c) == IF c = "a" THEN <<97>> ELSE <<195, 169>>

\* the bytes of text[lo..hi], by halves
RECURSIVE EncodeRange(_, _, _)
EncodeRange(text, lo, hi) ==
    IF lo > hi THEN <<>>
    ELSE IF lo = hi THEN Utf8(text[lo])
    ELSE LET mid == (lo + hi) \div 2
         IN  EncodeRange(text, lo, mid) \o EncodeRange(text, mid + 1, hi)
\* the bytes of a &str
AsBytes(text) == EncodeRange(text, 1, Len(text))

\* the character that byte i of a byte string starts, if it starts one
DecodeAt(bytes, i) ==
    IF bytes[i] < 128 THEN <<"a">>
    ELSE IF bytes[i] >= 192
      THEN IF i < Len(bytes) /\ bytes[i] = 195 /\ bytes[i + 1] = 169 THEN <<"e'">> ELSE <<"?">>
    ELSE IF i > 1 /\ bytes[i - 1] >= 192 THEN <<>> ELSE <<"?">>

RECURSIVE DecodeRange(_, _, _)
DecodeRange(bytes, lo, hi) ==
    IF lo > hi THEN <<>>
    ELSE IF lo = hi THEN DecodeAt(bytes, lo)
    ELSE LET mid == (lo + hi) \div 2
         IN  DecodeRange(bytes, lo, mid) \o DecodeRange(bytes, mid + 1, hi)
\* reading a file back as text
ReadToString(bytes) == DecodeRange(bytes, 1, Len(bytes))

Min(a, b) == IF a < b THEN a ELSE b

\* text.chars().take(n).collect::<String>()
TakeBytes(text, n) == ReadToString(SubSeq(AsBytes(text), 1, Min(n, Len(AsBytes(text)))))
TakeChars(text, n) == SubSeq(text, 1, Min(n, Len(text)))

\* ------------------------------------------------------------ variables
VARIABLES
    args,             \* Cli::parse()
    pc,               \* position of main
    outcome,          \* how the process ended, or running
    licenses_json,    \* Option: body of the registry response
    licenses,         \* the "licenses" array
    license,          \* Option: the selected summary
    details_url,      \* Option: license["detailsUrl"].as_str()
    license_details,  \* Option: body of the detail response
    gets,             \* URLs of the GET requests sent, in order
    stages,           \* pipeline stages started, in order
    stdout,           \* lines printed
    file,             \* Option: bytes of the file at the output path
    writes,           \* number of fs::write calls
    producer,         \* items the spawned thread has still to push
    items,            \* items pushed into the picker
    snapshot,         \* number of pushed items the UI loop has taken in
    pickState,        \* "none", "pending", "confirmed", "cancelled", "error"
    picked            \* position in the picker of the confirmed item, 0 if none

vars == <<args, pc, outcome, licenses_json, licenses, license, details_url,
          license_details, gets, stages, stdout, file, writes, producer, items,
          snapshot, pickState, picked>>

Running == [kind |-> "running", msg |-> ""]
Err(kind, msg) == [kind |-> kind, msg |-> msg]

Line(tag, style, text) == [tag |-> tag, style |-> style, text |-> text]

Init ==
    /\ args \in Cli
    /\ pc = "registry"
    /\ outcome = Running
    /\ licenses_json = None
    /\ licenses = <<>>
    /\ license = None
    /\ details_url = None
    /\ license_details = None
    /\ gets = <<>>
    /\ stages = <<>>
    /\ stdout = <<>>
    /\ file = None
    /\ writes = 0
    /\ producer = <<>>
    /\ items = <<>>
    /\ snapshot = 0
    /\ pickState = "none"
    /\ picked = 0

\* main returns Err(e), or panics: the process ends
ExitAndRetry(o) ==
    /\ outcome' = o
    /\ pc' = pc
Exit(o) ==
    /\ outcome' = o
    /\ pc' = "done"

\* ---------------------------------------------------- 1. registry client
FetchRegistry(resp) ==
    /\ pc = "registry"
    /\ gets' = Append(gets, RegistryUrl)
    /\ stages' = Append(stages, "registry")
    /\ IF resp.kind = "send_err"
         THEN Exit(Err("MiddleWareRequestFailed", "")) /\ UNCHANGED <<licenses_json, licenses>>
       ELSE IF resp.kind = "json_err"
         THEN Exit(Err("RequestFailed", "")) /\ UNCHANGED <<licenses_json, licenses>>
       ELSE /\ licenses_json' = Some(resp.body)
            /\ IF as_array(resp.body.licenses) = None
                 THEN Exit(Err("MalformedLicenseData", "")) /\ UNCHANGED licenses
                 ELSE /\ licenses' = Unwrap(as_array(resp.body.licenses))
                      /\ pc' = "select"
                      /\ UNCHANGED outcome
    /\ UNCHANGED <<args, license, details_url, license_details, stdout, file, writes,
                   producer, items, snapshot, pickState, picked>>

\* ------------------------------------------------------------ 2. selector
\* licenses.iter().find(|l| l["licenseId"].as_str() == Some(&id))
Lower(s) == IF s = "MIT" THEN "mit" ELSE s
FindNoCase(ls, id) ==
    LET hits == {i \in 1..Len(ls) : ls[i].licenseId.t = "str"
                                      /\ Lower(ls[i].licenseId.v) = Lower(id)}
    IN  IF hits = {} THEN None ELSE Some(ls[CHOOSE i \in hits : \A j \in hits : i <= j])
FindLast(ls, id) ==
    LET hits == {i \in 1..Len(ls) : as_str(ls[i].licenseId) = Some(id)}
    IN  IF hits = {} THEN None ELSE Some(ls[CHOOSE i \in hits : \A j \in hits : j <= i])
Find(ls, id) ==
    LET hits == {i \in 1..Len(ls) : as_str(ls[i].licenseId) = Some(id)}
    IN  IF hits = {} THEN None ELSE Some(ls[CHOOSE i \in hits : \A j \in hits : i <= j])

SelectExact ==
    /\ pc = "select"
    /\ args.spdx_identifier # None
    /\ stages' = Append(stages, "select")
    /\ LET id == Unwrap(args.spdx_identifier)
           found == Find(licenses, id)
       IN  IF found = None
             THEN Exit(Err("LicenseNotFound", id)) /\ UNCHANGED license
             ELSE /\ license' = found
                  /\ pc' = "selected"
                  /\ UNCHANGED outcome
    /\ UNCHANGED <<args, licenses_json, licenses, details_url, license_details, gets,
                   stdout, file, writes, producer, items, snapshot, pickState, picked>>

\* fuzzy_find_license: picker created, producer thread spawned, pick() entered
StartPicker ==
    /\ pc = "select"
    /\ args.spdx_identifier = None
    /\ stages' = Append(stages, "select")
    /\ producer' = licenses
    /\ items' = <<>>
    /\ snapshot' = 0
    /\ pickState' = "pending"
    /\ pc' = "pick"
    /\ UNCHANGED picked
    /\ UNCHANGED <<args, outcome, licenses_json, licenses, license, details_url,
                   license_details, gets, stdout, file, writes>>

\* one iteration of the spawned thread's loop; the thread dies with the process
PushTwice(its, x) == Append(Append(its, x), x)
Push(its, x) == Append(its, x)

ProducerPush ==
    /\ pickState # "none"
    /\ outcome = Running
    /\ producer # <<>>
    /\ items' = Push(items, Head(producer))
    /\ producer' = Tail(producer)
    /\ UNCHANGED <<args, pc, outcome, licenses_json, licenses, license, details_url,
                   license_details, gets, stages, stdout, file, writes, snapshot, pickState, picked>>

\* the UI loop takes in the items that arrived since its last step
UiTick ==
    /\ pc = "pick"
    /\ snapshot < Len(items)
    /\ snapshot' = Len(items)
    /\ UNCHANGED <<args, pc, outcome, licenses_json, licenses, license, details_url,
                   license_details, gets, stages, stdout, file, writes, producer, items,
                   pickState, picked>>

\* pick() returns Ok(Some(item)): Ok(Some(item.to_owned()))
Picked(its, i) == its[i]

PickConfirm(i) ==
    /\ pc = "pick"
    /\ i \in 1..snapshot
    /\ license' = Some(Picked(items, i))
    /\ pickState' = "confirmed"
    /\ picked' = i
    /\ pc' = "selected"
    /\ UNCHANGED <<args, outcome, licenses_json, licenses, details_url, license_details,
                   gets, stages, stdout, file, writes, producer, items, snapshot>>

\* pick() returns Ok(None): fuzzy_find_license returns Ok(None), main's expect panics
PickCancel ==
    /\ pc = "pick"
    /\ pickState' = "cancelled"
    /\ UNCHANGED picked
    /\ Exit(Err("panic", ExpectMsg))
    /\ UNCHANGED <<args, licenses_json, licenses, license, details_url, license_details,
                   gets, stages, stdout, file, writes, producer, items, snapshot>>

\* pick() returns Err(_): the session ended without a selection
PickError ==
    /\ pc = "pick"
    /\ pickState' = "error"
    /\ UNCHANGED picked
    /\ Exit(Err("LicenseNotFound", PickerErrMsg))
    /\ UNCHANGED <<args, licenses_json, licenses, license, details_url, license_details,
                   gets, stages, stdout, file, writes, producer, items, snapshot>>

\* license["detailsUrl"].as_str().ok_or(MalformedLicenseData)?, then the notice
PrepareDetail ==
    /\ pc = "selected"
    /\ LET url == as_str(Unwrap(license).detailsUrl)
       IN  IF url = None
             THEN Exit(Err("MalformedLicenseData", "")) /\ UNCHANGED <<details_url, stdout>>
             ELSE /\ details_url' = url
                  /\ stdout' = Append(stdout, Line("Fetching license details...", "yellow", <<>>))
                  /\ pc' = "detail"
                  /\ UNCHANGED outcome
    /\ UNCHANGED <<args, licenses_json, licenses, license, license_details, gets, stages,
                   file, writes, producer, items, snapshot, pickState, picked>>

\* ------------------------------------------------------ 3. detail fetcher
FetchDetails(resp) ==
    /\ pc = "detail"
    /\ gets' = Append(gets, Unwrap(details_url))
    /\ stages' = Append(stages, "detail")
    /\ IF resp.kind = "send_err"
         THEN Exit(Err("MiddleWareRequestFailed", "")) /\ UNCHANGED license_details
       ELSE IF resp.kind = "json_err"
         THEN Exit(Err("RequestFailed", "")) /\ UNCHANGED license_details
       ELSE /\ license_details' = Some(resp.body)
            /\ pc' = "present"
            /\ UNCHANGED outcome
    /\ UNCHANGED <<args, licenses_json, licenses, license, details_url, stdout, file,
                   writes, producer, items, snapshot, pickState, picked>>

\* ----------------------------------------------------------- 4. presenter
display_preview(details, full_text) ==
    <<Line("License Preview:", "green bold", <<>>),
      Line("metadata", "", <<>>)>>
    \o (IF as_str(details.licenseText) # None
          THEN LET text == Unwrap(as_str(details.licenseText))
               IN  IF full_text
                     THEN <<Line("Full License Text", "green bold", <<>>),
                            Line("text", "", text)>>
                     ELSE <<Line("License Text Preview (first 200 chars)", "cyan bold", <<>>),
                            Line("text", "italic", TakeChars(text, PreviewChars)),
                            Line("...", "bright_black", <<>>)>>
          ELSE <<Line("License text not available", "red", <<>>)>>)

Present ==
    /\ pc = "present"
    /\ stages' = Append(stages, "present")
    /\ stdout' = stdout \o display_preview(Unwrap(license_details), args.full_text)
    /\ pc' = "persist"
    /\ UNCHANGED <<args, outcome, licenses_json, licenses, license, details_url,
                   license_details, gets, file, writes, producer, items, snapshot, pickState, picked>>

\* license_details["licenseText"].as_str() of the persist step
license_text_or_empty(details) ==
    IF as_str(details.licenseText) = None THEN Some(<<>>) ELSE as_str(details.licenseText)
license_text(details) == as_str(details.licenseText)

\* what fs::write(&out, license_text) puts in the file when it succeeds
WritePreviewOnly(text) == AsBytes(TakeChars(text, PreviewChars))
WriteContents(text) == AsBytes(text)

\* the line printed after fs::write(..)? : only reached when the write succeeded
AfterWriteAlways(w) == <<Line("License text written to:", "green", <<>>)>>
AfterWrite(w) == IF w = "ok" THEN <<Line("License text written to:", "green", <<>>)>> ELSE <<>>

WriteResults == {"ok", "create_failed", "write_failed"}

\* fs::write = File::create + write_all: either may fail
Persist(w) ==
    /\ pc = "persist"
    /\ IF args.output = None
         THEN Exit(Err("Ok", "")) /\ UNCHANGED <<file, writes, stdout>>
       ELSE IF license_text(Unwrap(license_details)) = None
         THEN /\ stdout' = Append(stdout,
                      Line("License text not available for writing to file", "red", <<>>))
              /\ Exit(Err("Ok", ""))
              /\ UNCHANGED <<file, writes>>
       ELSE LET text == Unwrap(license_text(Unwrap(license_details)))
            IN  /\ writes' = writes + 1
                /\ file' = IF w = "ok" THEN Some(WriteContents(text))
                           ELSE IF w = "create_failed" THEN file
                           ELSE Some(<<>>)
                /\ stdout' = stdout \o AfterWrite(w)
                /\ Exit(IF w = "ok" THEN Err("Ok", "") ELSE Err("FileWriteError", ""))
    /\ UNCHANGED <<args, licenses_json, licenses, license, details_url, license_details,
                   gets, stages, producer, items, snapshot, pickState, picked>>

Next ==
    \/ \E resp \in RegistryResponses : FetchRegistry(resp)
    \/ SelectExact
    \/ StartPicker
    \/ ProducerPush
    \/ UiTick
    \/ \E i \in 1..snapshot : PickConfirm(i)
    \/ PickCancel
    \/ PickError
    \/ PrepareDetail
    \/ \E resp \in DetailResponses : FetchDetails(resp)
    \/ Present
    \/ \E w \in WriteResults : Persist(w)

Spec == Init /\ [][Next]_vars

TypeOK ==
    /\ pc \in {"registry", "select", "pick", "selected", "detail", "present", "persist", "done"}
    /\ writes \in 0..1
    /\ snapshot \in 0..Len(items)
    /\ picked \in 0..Len(items)

\* ------------------------------------------------------------- vocabulary
ExactRun == args.spdx_identifier # None
InteractiveRun == args.spdx_identifier = None
Selecting == "select" \in {stages[k] : k \in 1..Len(stages)}
\* positions of the registry list whose licenseId is exactly the identifier
Matches == {i \in 1..Len(licenses) : licenses[i].licenseId = JStr(Unwrap(args.spdx_identifier))}
SelectDone == ExactRun /\ Selecting
DetailGets == Len(gets) - 1
TextLines == {k \in 1..Len(stdout) : stdout[k].tag = "text"}
PreviewPrinted == \E k \in 1..Len(stdout) : stdout[k].tag = "License Preview:"
HasText == license_details # None /\ Unwrap(license_details).licenseText.t = "str"
TheText == Unwrap(license_details).licenseText.v
Ended == outcome # Running
Pipeline == <<"registry", "select", "detail", "present">>
RequestErrors == {"RequestFailed", "MiddleWareRequestFailed"}
AppErrors == RequestErrors \cup {"MalformedLicenseData", "LicenseNotFound", "FileWriteError"}

\* ------------------------------------------------------------------- C1
\* C1: in a run with an identifier X, once selection has run over a list that
\* holds a summary whose licenseId is exactly X, the selected record is the
\* first such summary in list order, the run has not failed with
\* LicenseNotFound, and a detail GET, if sent, went to that summary's detailsUrl.
C1_ExactMatchFirst ==
    (SelectDone /\ Matches # {}) =>
        \E i \in Matches :
            /\ \A j \in Matches : i <= j
            /\ license = Some(licenses[i])
            /\ outcome.kind # "LicenseNotFound"
            /\ DetailGets <= 1
            /\ DetailGets = 1 => JStr(gets[2]) = licenses[i].detailsUrl

\* two summaries carry the identifier, with different detail URLs, and the detail GET was sent
C1_Witness ==
    /\ SelectDone
    /\ Cardinality(Matches) = 2
    /\ licenses[1].detailsUrl # licenses[2].detailsUrl
    /\ DetailGets = 1

\* ------------------------------------------------------------------- C2
\* C2: in a run with an identifier X that is the licenseId of no summary of the
\* list, selection ends the run with LicenseNotFound carrying X and the only
\* GET of the run is the registry GET.
C2_NotFoundNoDetailFetch ==
    (SelectDone /\ Matches = {}) =>
        /\ pc = "done"
        /\ outcome = Err("LicenseNotFound", Unwrap(args.spdx_identifier))
        /\ gets = <<RegistryUrl>>
        /\ license = None

\* the identifier is absent although the list holds the same letters in another case
C2_Witness ==
    /\ SelectDone
    /\ Matches = {}
    /\ \E i \in 1..Len(licenses) :
          licenses[i].licenseId.t = "str"
          /\ Lower(licenses[i].licenseId.v) = Lower(Unwrap(args.spdx_identifier))
    /\ outcome.kind = "LicenseNotFound"

\* ------------------------------------------------------------------- C3
\* C3: when the registry body has no "licenses" field or the field is not an
\* array, the run has ended with MalformedLicenseData, the only stage started
\* is the registry fetch, no picker was started, nothing was selected and no
\* detail GET was sent.
C3_MalformedBeforeSelection ==
    (licenses_json # None /\ Unwrap(licenses_json).licenses.t # "arr") =>
        /\ pc = "done"
        /\ outcome.kind = "MalformedLicenseData"
        /\ stages = <<"registry">>
        /\ pickState = "none"
        /\ license = None
        /\ gets = <<RegistryUrl>>

\* the field is present but is a string
C3_Witness ==
    /\ licenses_json # None
    /\ Unwrap(licenses_json).licenses.t = "str"
    /\ outcome.kind = "MalformedLicenseData"

\* ------------------------------------------------------------------- C4
\* C4: when no identifier is supplied and the interactive session ends without
\* a selection, the outcome of the run is neither LicenseNotFound nor a
\* request failure.
C4_CancelIsDistinct ==
    (InteractiveRun /\ pickState \in {"cancelled", "error"}) =>
        outcome.kind \notin {"LicenseNotFound"} \cup RequestErrors

\* ------------------------------------------------------------------- C5
\* C5: with an output path and a detail record without a string licenseText,
\* fs::write is never called, the file is not created, the run does not fail
\* with FileWriteError, and it ends with success after printing the
\* "not available" line.
C5_MissingTextSkipsWrite ==
    (args.output # None /\ license_details # None /\ ~HasText) =>
        /\ writes = 0
        /\ file = None
        /\ outcome.kind \in {"running", "Ok"}
        /\ pc = "done" =>
              /\ outcome.kind = "Ok"
              /\ stdout[Len(stdout)].tag = "License text not available for writing to file"

C5_Witness ==
    /\ args.output # None
    /\ license_details # None
    /\ ~HasText
    /\ pc = "done"

\* ------------------------------------------------------------------- C6
\* C6: once the preview is printed for a detail record with a licenseText:
\* with full_text exactly one text line is printed and it is the whole text,
\* unstyled; without it exactly one text line is printed, it holds the first
\* min(200, length) characters of the text and the next line is the "..." marker.
C6_PreviewText ==
    (PreviewPrinted /\ HasText) =>
        /\ Cardinality(TextLines) = 1
        /\ \A k \in TextLines :
              IF args.full_text
                THEN stdout[k].text = TheText
                ELSE /\ Len(stdout[k].text) = Min(PreviewChars, Len(TheText))
                     /\ \A i \in 1..Len(stdout[k].text) : stdout[k].text[i] = TheText[i]
                     /\ k < Len(stdout)
                     /\ stdout[k + 1].tag = "..."

\* a text longer than the preview, cut
C6_Witness ==
    /\ PreviewPrinted
    /\ HasText
    /\ ~args.full_text
    /\ Len(TheText) > PreviewChars
    /\ \E k \in TextLines : Len(stdout[k].text) = PreviewChars

\* ------------------------------------------------------------------- C7
\* C7 as stated: a run that ended with an error of the taxonomy has printed no
\* preview and has written no output file.
C7_NoOutputOnAnyError ==
    outcome.kind \in AppErrors => (~PreviewPrinted /\ file = None)

\* C7 amended: a run that ended with a request failure, malformed data or not
\* found (or with the panic on a cancelled picker) has printed no preview and
\* has never called fs::write; a run that ended with FileWriteError has printed
\* the preview before the failed write and has printed nothing after it.
C7_NoOutputBeforePresenter ==
    /\ outcome.kind \in (AppErrors \ {"FileWriteError"}) \cup {"panic"} =>
          /\ ~PreviewPrinted
          /\ file = None
          /\ writes = 0
    /\ outcome.kind = "FileWriteError" =>
          /\ PreviewPrinted
          /\ writes = 1
          /\ stdout[Len(stdout)].tag \in {"...", "text"}

\* the write failed after the preview of a full text was printed, leaving a truncated file
C7_Witness ==
    /\ outcome.kind = "FileWriteError"
    /\ PreviewPrinted
    /\ file = Some(<<>>)

\* ------------------------------------------------------------------- C8
\* C8: after a successful write, reading the file back as text gives licenseText,
\* whatever full_text is and however long the text is.
C8_RoundTrip ==
    (outcome.kind = "Ok" /\ writes = 1) =>
        /\ file # None
        /\ HasText
        /\ ReadToString(Unwrap(file)) = TheText

\* a text longer than the preview was written in a run that printed the cut preview
C8_Witness ==
    /\ outcome.kind = "Ok"
    /\ writes = 1
    /\ ~args.full_text
    /\ Len(TheText) > PreviewChars
    /\ file # None

\* ------------------------------------------------------------------- C9
\* C9: the stages started are always an initial part of registry, select,
\* detail, present; there is one GET per fetch stage started, the first to the
\* registry URL; a stage has the result of the one before it; a run that has
\* an outcome is at its end, so no stage is started again; and the error a run
\* ends with is one the last stage started can raise.
C9_StagesInOrder ==
    /\ Len(stages) <= Len(Pipeline)
    /\ stages = SubSeq(Pipeline, 1, Len(stages))
    /\ Len(gets) = (IF Len(stages) >= 1 THEN 1 ELSE 0) + (IF Len(stages) >= 3 THEN 1 ELSE 0)
    /\ Len(gets) >= 1 => gets[1] = RegistryUrl
    /\ Len(stages) >= 2 => (licenses_json # None /\ Unwrap(licenses_json).licenses.t = "arr")
    /\ Len(stages) >= 3 => (license # None /\ details_url # None)
    /\ Len(stages) >= 4 => license_details # None
    /\ Ended <=> pc = "done"
    /\ outcome.kind \in AppErrors \cup {"panic"} =>
          outcome.kind \in
              CASE Len(stages) = 1 -> RequestErrors \cup {"MalformedLicenseData"}
                [] Len(stages) = 2 -> {"LicenseNotFound", "MalformedLicenseData", "panic"}
                [] Len(stages) = 3 -> RequestErrors
                [] OTHER -> {"FileWriteError"}

\* a run that went through all four stages and ended
C9_Witness ==
    /\ stages = Pipeline
    /\ Len(gets) = 2
    /\ outcome.kind = "Ok"

\* ------------------------------------------------------------------ C10
\* C10 as stated: each input summary is pushed exactly once, so a run that used
\* the picker ends with every summary pushed.
C10_AllPushedAtEnd ==
    (pc = "done" /\ pickState # "none") => items = licenses

\* C10 amended: the pushed items followed by the items still to push are the
\* input list (each summary is pushed at most once, in list order, and exactly
\* once if the producer thread finishes before the process ends); a confirmed
\* selection is a pushed item the UI loop has taken in and the selected record
\* is the input summary at that position, whatever was pushed by then; main
\* stays in pick() with nothing selected and no detail GET while the session
\* is pending.
C10_PickerSession ==
    /\ pickState # "none" => items \o producer = licenses
    /\ pickState = "confirmed" =>
          /\ picked \in 1..Len(items)
          /\ license = Some(licenses[picked])
    /\ pickState = "pending" <=> pc = "pick"
    /\ pickState = "pending" => (license = None /\ gets = <<RegistryUrl>> /\ ~Ended)
    /\ pickState \in {"cancelled", "error"} => (license = None /\ gets = <<RegistryUrl>>)

\* a summary was confirmed before the producer was through, and main went on
C10_Witness ==
    /\ pickState = "confirmed"
    /\ picked = 1
    /\ producer # <<>>
    /\ pc = "detail"
====
